---- MODULE Spec2Model ----
(***************************************************************************)
(* A model of march-madness.py: the Team objects, the probability          *)
(* computation, the weighted draw from the hat, the round reduction and     *)
(* main's orchestration of the four divisions, the Final Four and the       *)
(* Championship.                                                            *)
(*                                                                          *)
(* Numbers.  The program computes with IEEE doubles.  Here a Team's         *)
(* probability 1/odds is the exact rational num/den (den > 0), and every    *)
(* value that has passed through round(x, 3) is kept in fixed point, as an  *)
(* integer count of thousandths (Milli).  round() is Python 2's: to the     *)
(* nearest, ties away from zero (the program is Python 2: print             *)
(* statements).  For the integer odds of this model's inputs the exact      *)
(* computation and the double computation give the same thousandths.        *)
(*                                                                          *)
(* Objects.  A Team object is its position in the heap `teams`; a lineup    *)
(* is a sequence of such references, so two teams of the same name stay     *)
(* two objects.  Python's 0-based `index` is kept 0-based: lineup[index]    *)
(* of the program is lineup[index + 1] here.                                *)
(***************************************************************************)
EXTENDS Integers, Sequences, FiniteSets, TLC

VARIABLES
    csv,                \* the rows of the input file, in file order
    teams,              \* the heap of Team objects, in creation order
    pc,                 \* where main is
    error,              \* the exception that ended the run, or "none"
    tournament_index,   \* main's tournament_index
    round_index,        \* main's round_index
    lineup,             \* main's lineup (the current division's)
    semi_final_lineup,  \* main's semi_final_lineup
    final_lineup,       \* main's final_lineup
    champion,           \* the team main prints last, <<>> until then
    arg,                \* SingleRoundPlayBall's parameter lineup
    index,              \* the comprehension's index in SingleRoundPlayBall
    out,                \* the comprehension's list so far
    last,               \* the locals of the latest WeightedCoinFlip call
    draws               \* history: one entry per winner drawn from a hat

vars == <<csv, teams, pc, error, tournament_index, round_index, lineup,
          semi_final_lineup, final_lineup, champion, arg, index, out, last, draws>>

----------------------------------------------------------------------------
(* Bounds of the model *)

\* the longest division lineup an input file holds
MaxLen == 6
\* the largest ordinary odds of a two-team input
MaxOdds == 16
\* the most negative odds of a two-team input is -NegOdds
NegOdds == 2
\* one long-shot odds value of a two-team input
BigOdds == 3000

(* Constants of the program *)

TOURNAMENT == <<"Midwest", "West", "South", "East",
                "Final Four", "Championship", "Champion!">>

\* ROUND_NAMES, each name by whether it holds a %s for the division
ROUND_NAMES == <<TRUE, TRUE, TRUE, TRUE, FALSE, FALSE>>

\* a variant: the first two divisions in the other order
LINEUP_ORDER_Swapped == <<"West", "Midwest", "South", "East">>

LINEUP_ORDER == SubSeq(TOURNAMENT, 1, 4)

\* round(x, 3): the number of thousandths in one unit
Milli == 1000
\* the factor that turns a rounded ratio into a percentage
Percent == 100
\* the factor that turns a percentage into a number of slips
SlipsPerPercent == 10
\* the number of slips the hat must hold
HatSize == 1000

----------------------------------------------------------------------------
(* Arithmetic *)

Abs(n) == IF n < 0 THEN -n ELSE n

Sign(n) == IF n < 0 THEN -1 ELSE IF n > 0 THEN 1 ELSE 0

\* truncation toward zero
RoundDown(n, d) == Sign(n) * Sign(d) * (Abs(n) \div Abs(d))

\* Python 2's round(): n/d (d # 0) to the nearest integer, ties away from zero
RoundHalfAway(n, d) ==
    Sign(n) * Sign(d) * ((2 * Abs(n) + Abs(d)) \div (2 * Abs(d)))

\* a variant: three decimals by truncation
Round3Down(n, d) == RoundDown(n * Milli, d)

\* round(n/d, 3), in thousandths
Round3(n, d) == RoundHalfAway(n * Milli, d)

\* len(range(n)): a negative count puts no slip in the hat
RangeLen(n) == IF n < 0 THEN 0 ELSE n

----------------------------------------------------------------------------
(* class Team *)

\* 1 / odds raises ZeroDivisionError
TeamFails(odds) == odds = 0

\* a variant: the sign of the odds dropped
ProbabilityAbs(odds) == [num |-> 1, den |-> Abs(odds)]

\* self.probability = 1 / odds, as a fraction with a positive denominator
Probability(odds) == [num |-> Sign(odds), den |-> Abs(odds)]

Team(name, division, odds) ==
    [name |-> name, division |-> division, odds |-> odds,
     probability |-> Probability(odds), previous_upset |-> FALSE]

----------------------------------------------------------------------------
(* CalculateWinProbabilities: the two percentages, in thousandths of a      *)
(* percent, or the ZeroDivisionError of a zero sum of probabilities.        *)

CalculateWinProbabilities(team1, team2) ==
    LET a1 == team1.probability.num * team2.probability.den
        a2 == team2.probability.num * team1.probability.den
        s  == a1 + a2
    IN  IF s = 0
        THEN [error |-> "ZeroDivisionError", p1 |-> 0, p2 |-> 0]
        ELSE [error |-> "none",
              p1 |-> Round3(a1, s) * Percent,
              p2 |-> Round3(a2, s) * Percent]

\* int(round(p * 10, 0)) for a percentage p
Slips(p) == RoundHalfAway(p * SlipsPerPercent, Milli)

\* the underdog: 1, 2, or 0 for None
Underdog(p1, p2) == IF p1 > p2 THEN 2 ELSE IF p1 < p2 THEN 1 ELSE 0

\* a variant: the assertion not checked
HatFullUnchecked(n) == TRUE

\* assert len(hat) == 1000
HatFull(n) == n = HatSize

\* hat[winner_index]: the first n1 slips are team1's, the rest team2's
HatAt(i1, i2, n1, winner_index) == IF winner_index < n1 THEN i1 ELSE i2

\* random.randint(0, len(hat) - 1): one index for each end of each team's
\* run of slips (all the slips of a team are the same object)
DrawIndices(n1, n2) ==
    {i \in {0, n1 - 1, n1, n1 + n2 - 1} : 0 <= i /\ i < n1 + n2}

----------------------------------------------------------------------------
(* WeightedCoinFlip(team1, team2) on the heap tm, team1 = tm[i1] and        *)
(* team2 = tm[i2], with the random index drawn: the heap after the call,    *)
(* the exception or "none", the winner and the call's locals.               *)

WeightedCoinFlip(tm, i1, i2, winner_index) ==
    LET reset == [tm EXCEPT ![i1].previous_upset = FALSE,
                            ![i2].previous_upset = FALSE]
        probs == CalculateWinProbabilities(reset[i1], reset[i2])
        underdog == Underdog(probs.p1, probs.p2)
        n1 == RangeLen(Slips(probs.p1))
        n2 == RangeLen(Slips(probs.p2))
        winner == HatAt(i1, i2, n1, winner_index)
        first == IF reset[winner].name = reset[i1].name /\ underdog = 1
                 THEN [reset EXCEPT ![winner].previous_upset = TRUE]
                 ELSE reset
        second == IF first[winner].name = first[i2].name /\ underdog = 2
                  THEN [first EXCEPT ![winner].previous_upset = TRUE]
                  ELSE first
        locals == [called |-> TRUE, team1 |-> i1, team2 |-> i2,
                   p1 |-> probs.p1, p2 |-> probs.p2, n1 |-> n1, n2 |-> n2,
                   before1 |-> tm[i1].previous_upset,
                   before2 |-> tm[i2].previous_upset]
    IN  IF probs.error # "none"
        THEN [error |-> probs.error, teams |-> reset, winner |-> 0,
              locals |-> locals]
        ELSE IF ~HatFull(n1 + n2)
        THEN [error |-> "AssertionError", teams |-> reset, winner |-> 0,
              locals |-> locals]
        ELSE [error |-> "none", teams |-> second, winner |-> winner,
              locals |-> locals]

\* the random indices a call may draw (none when the call fails first)
FlipChoices(tm, i1, i2) ==
    LET r == WeightedCoinFlip(tm, i1, i2, 0)
    IN  IF r.error # "none" THEN {0} ELSE DrawIndices(r.locals.n1, r.locals.n2)

NoCall == [called |-> FALSE, team1 |-> 0, team2 |-> 0, p1 |-> 0, p2 |-> 0,
           n1 |-> 0, n2 |-> 0, before1 |-> FALSE, before2 |-> FALSE,
           error |-> "none", winner |-> 0]

\* the record kept of a call
CallRecord(r) ==
    [called |-> TRUE, team1 |-> r.locals.team1, team2 |-> r.locals.team2,
     p1 |-> r.locals.p1, p2 |-> r.locals.p2,
     n1 |-> r.locals.n1, n2 |-> r.locals.n2,
     before1 |-> r.locals.before1, before2 |-> r.locals.before2,
     error |-> r.error, winner |-> r.winner]

----------------------------------------------------------------------------
(* ImportData *)

\* the rows become Team objects in file order; the first zero odds raises
LoadTeams(rows) ==
    IF \E i \in 1..Len(rows) : TeamFails(rows[i].odds)
    THEN [error |-> "ZeroDivisionError", teams |-> <<>>]
    ELSE [error |-> "none",
          teams |-> [i \in 1..Len(rows) |->
                        Team(rows[i].name, rows[i].division, rows[i].odds)]]

\* lineup_dict[division]: the teams of the division in file order; an empty
\* sequence stands for a key lineup_dict does not hold
lineup_dict(tm, division) ==
    SelectSeq([i \in 1..Len(tm) |-> i], LAMBDA i : tm[i].division = division)

----------------------------------------------------------------------------
(* PritsPrintLineup: what it raises, or "none".  It reads lineup[index + 1] *)
(* and then computes the pair's probabilities, pair after pair.             *)

PairError(tm, l, k) ==
    IF k + 1 >= Len(l) THEN "IndexError"
    ELSE CalculateWinProbabilities(tm[l[k + 1]], tm[l[k + 2]]).error

\* a variant: printing never raises
PrintsNothingWrong(tm, l) == "none"

PritsPrintLineup(tm, l) ==
    LET starts == {k \in 0..(Len(l) - 1) : k % 2 = 0}
        bad == {k \in starts : PairError(tm, l, k) # "none"}
    IN  IF bad = {} THEN "none"
        ELSE PairError(tm, l, CHOOSE k \in bad : \A j \in bad : k <= j)

----------------------------------------------------------------------------
(* main *)

\* print ROUND_NAMES[round_index] % (TOURNAMENT[tournament_index]): what
\* it raises, or "none"
RoundHeader(r) ==
    IF r >= Len(ROUND_NAMES) THEN "IndexError"
    ELSE IF ~ROUND_NAMES[r + 1] THEN "TypeError"
    ELSE "none"

\* a variant: the winner put at the front
Prepend(s, w) == <<w>> \o s

\* the comprehension adds the winner at the end of its list
Collect(s, w) == Append(s, w)

\* a variant: the division winner put at the front
ExtendFront(s, l) == l \o s

\* semi_final_lineup.extend(lineup)
Extend(s, l) == s \o l

Playing == {"play243", "play255", "play264"}

Abort(e) ==
    /\ pc' = "aborted"
    /\ error' = e

\* the first next() of the generator: the file is read and the teams made
ImportData ==
    /\ pc = "import"
    /\ LET r == LoadTeams(csv)
       IN  /\ teams' = r.teams
           /\ IF r.error # "none"
              THEN Abort(r.error)
              ELSE pc' = "for" /\ error' = error
    /\ UNCHANGED <<csv, tournament_index, round_index, lineup,
                   semi_final_lineup, final_lineup, champion, arg, index,
                   out, last, draws>>

\* for lineup in lineups: the generator yields lineup_dict[division]
ForNext ==
    /\ pc = "for"
    /\ tournament_index < Len(LINEUP_ORDER)
    /\ LET l == lineup_dict(teams, LINEUP_ORDER[tournament_index + 1])
       IN  IF l = <<>>
           THEN Abort("KeyError") /\ UNCHANGED <<lineup, round_index>>
           ELSE /\ lineup' = l
                /\ round_index' = 0
                /\ pc' = "while"
                /\ error' = error
    /\ UNCHANGED <<csv, teams, tournament_index, semi_final_lineup,
                   final_lineup, champion, arg, index, out, last, draws>>

\* while len(lineup) > 1: print the round, then call SingleRoundPlayBall
StartRound ==
    /\ pc = "while"
    /\ Len(lineup) > 1
    /\ LET h == RoundHeader(round_index)
           e == IF h # "none" THEN h ELSE PritsPrintLineup(teams, lineup)
       IN  IF e # "none"
           THEN Abort(e) /\ UNCHANGED <<arg, index, out>>
           ELSE /\ arg' = lineup
                /\ index' = 0
                /\ out' = <<>>
                /\ pc' = "play243"
                /\ error' = error
    /\ UNCHANGED <<csv, teams, tournament_index, round_index, lineup,
                   semi_final_lineup, final_lineup, champion, last, draws>>

\* one element of SingleRoundPlayBall's comprehension
Matchup ==
    /\ pc \in Playing
    /\ index < Len(arg)
    /\ IF index + 1 >= Len(arg)
       THEN /\ Abort("IndexError")
            /\ UNCHANGED <<teams, index, out, last, draws>>
       ELSE \E winner_index \in FlipChoices(teams, arg[index + 1], arg[index + 2]) :
              LET r == WeightedCoinFlip(teams, arg[index + 1], arg[index + 2],
                                        winner_index)
              IN  /\ teams' = r.teams
                  /\ last' = CallRecord(r)
                  /\ IF r.error # "none"
                     THEN Abort(r.error) /\ UNCHANGED <<index, out, draws>>
                     ELSE /\ out' = Collect(out, r.winner)
                          /\ index' = index + 2
                          /\ draws' = Append(draws,
                                 [site |-> pc, stage |-> tournament_index,
                                  division |-> teams[arg[index + 1]].division,
                                  round |-> IF pc = "play243" THEN round_index ELSE 0,
                                  pair |-> index \div 2])
                          /\ UNCHANGED <<pc, error>>
    /\ UNCHANGED <<csv, tournament_index, round_index, lineup,
                   semi_final_lineup, final_lineup, champion, arg>>

\* lineup = SingleRoundPlayBall(lineup); round_index += 1
Return243 ==
    /\ pc = "play243"
    /\ index >= Len(arg)
    /\ lineup' = out
    /\ round_index' = round_index + 1
    /\ pc' = "while"
    /\ UNCHANGED <<csv, teams, error, tournament_index, semi_final_lineup,
                   final_lineup, champion, arg, index, out, last, draws>>

\* the while loop ends: the division's winner joins the semi-final lineup
DivisionDone ==
    /\ pc = "while"
    /\ Len(lineup) <= 1
    /\ semi_final_lineup' = Extend(semi_final_lineup, lineup)
    /\ tournament_index' = tournament_index + 1
    /\ pc' = "for"
    /\ UNCHANGED <<csv, teams, error, round_index, lineup, final_lineup,
                   champion, arg, index, out, last, draws>>

\* the generator is exhausted: the Final Four is printed and played
FinalFour ==
    /\ pc = "for"
    /\ tournament_index >= Len(LINEUP_ORDER)
    /\ tournament_index' = tournament_index + 1
    /\ LET e == PritsPrintLineup(teams, semi_final_lineup)
       IN  IF e # "none"
           THEN Abort(e) /\ UNCHANGED <<arg, index, out>>
           ELSE /\ arg' = semi_final_lineup
                /\ index' = 0
                /\ out' = <<>>
                /\ pc' = "play255"
                /\ error' = error
    /\ UNCHANGED <<csv, teams, round_index, lineup, semi_final_lineup,
                   final_lineup, champion, last, draws>>

\* final_lineup = SingleRoundPlayBall(semi_final_lineup)
Return255 ==
    /\ pc = "play255"
    /\ index >= Len(arg)
    /\ final_lineup' = out
    /\ pc' = "championship"
    /\ UNCHANGED <<csv, teams, error, tournament_index, round_index, lineup,
                   semi_final_lineup, champion, arg, index, out, last, draws>>

\* the Championship is printed, then played under the Champion header
Championship ==
    /\ pc = "championship"
    /\ tournament_index' = tournament_index + 1
    /\ LET e == PritsPrintLineup(teams, final_lineup)
       IN  IF e # "none"
           THEN Abort(e) /\ UNCHANGED <<arg, index, out>>
           ELSE /\ arg' = final_lineup
                /\ index' = 0
                /\ out' = <<>>
                /\ pc' = "play264"
                /\ error' = error
    /\ UNCHANGED <<csv, teams, round_index, lineup, semi_final_lineup,
                   final_lineup, champion, last, draws>>

\* print FormattedTeamName(SingleRoundPlayBall(final_lineup)[0])
Return264 ==
    /\ pc = "play264"
    /\ index >= Len(arg)
    /\ IF out = <<>>
       THEN Abort("IndexError") /\ UNCHANGED champion
       ELSE /\ champion' = <<out[1]>>
            /\ pc' = "done"
            /\ error' = error
    /\ UNCHANGED <<csv, teams, tournament_index, round_index, lineup,
                   semi_final_lineup, final_lineup, arg, index, out, last, draws>>

----------------------------------------------------------------------------
(* The input files of the tournament runs *)

\* the odds a tournament file uses
OddsSet == {1, 3, 15}

\* the odds of a division's teams by position, repeating after four: the
\* first team has odds 1 and the fourth odds 3
OddsRows == {row \in [1..4 -> OddsSet] : row[1] = 1 /\ row[4] = 3}

\* the number of teams of each division: two each, but for at most one
\* division (0: the division is not in the file); or four each
Shapes ==
    {lens \in [1..4 -> 0..MaxLen] : Cardinality({d \in 1..4 : lens[d] # 2}) <= 1}
    \cup {[d \in 1..4 |-> 4]}

DivisionRows(d, n, row) ==
    [j \in 1..n |-> [name |-> 10 * d + j, division |-> TOURNAMENT[d],
                     odds |-> row[((j - 1) % 4) + 1]]]

File(lens, row) ==
    DivisionRows(1, lens[1], row) \o DivisionRows(2, lens[2], row)
    \o DivisionRows(3, lens[3], row) \o DivisionRows(4, lens[4], row)

Start ==
    /\ teams = <<>>
    /\ pc = "import"
    /\ error = "none"
    /\ tournament_index = 0
    /\ round_index = 0
    /\ lineup = <<>>
    /\ semi_final_lineup = <<>>
    /\ final_lineup = <<>>
    /\ champion = <<>>
    /\ arg = <<>>
    /\ index = 0
    /\ out = <<>>
    /\ last = NoCall
    /\ draws = <<>>

Init ==
    /\ \E lens \in Shapes, row \in OddsRows : csv = File(lens, row)
    /\ Start

Next ==
    \/ ImportData
    \/ ForNext
    \/ StartRound
    \/ Matchup
    \/ Return243
    \/ DivisionDone
    \/ FinalFour
    \/ Return255
    \/ Championship
    \/ Return264

Spec == Init /\ [][Next]_vars

----------------------------------------------------------------------------
(* Two teams made from a two-row file and matched against each other, any  *)
(* number of times and in either order: the inputs of Team,                 *)
(* CalculateWinProbabilities and WeightedCoinFlip drawn from wider sets,    *)
(* two teams of one name included.                                          *)

MatchOdds == ((-NegOdds)..MaxOdds) \cup {BigOdds}

MatchInit ==
    /\ \E o1 \in MatchOdds, o2 \in MatchOdds, n2 \in {1, 2} :
          csv = <<[name |-> 1, division |-> TOURNAMENT[1], odds |-> o1],
                  [name |-> n2, division |-> TOURNAMENT[1], odds |-> o2]>>
    /\ Start

\* WeightedCoinFlip(teams[i1], teams[i2]), called on its own
MatchCall(i1, i2) ==
    /\ pc = "for"
    /\ \E winner_index \in FlipChoices(teams, i1, i2) :
          LET r == WeightedCoinFlip(teams, i1, i2, winner_index)
          IN  /\ teams' = r.teams
              /\ last' = CallRecord(r)
              /\ IF r.error # "none"
                 THEN Abort(r.error)
                 ELSE UNCHANGED <<pc, error>>
    /\ UNCHANGED <<csv, tournament_index, round_index, lineup,
                   semi_final_lineup, final_lineup, champion, arg, index,
                   out, draws>>

MatchNext ==
    \/ ImportData
    \/ MatchCall(1, 2)
    \/ MatchCall(2, 1)

MatchSpec == MatchInit /\ [][MatchNext]_vars

----------------------------------------------------------------------------
(* What the properties below speak of *)

\* the division order the specification states
StatedOrder == <<"Midwest", "West", "South", "East">>

\* the teams of division d (0..3) as the input file lists them
InitialLineup(d) ==
    SelectSeq([i \in 1..Len(csv) |-> i],
              LAMBDA i : csv[i].division = StatedOrder[d + 1])

InitialLen(d) == Len(InitialLineup(d))

IsPow2(n) == \E k \in 0..n : 2 ^ k = n

\* four lineups, each of a power-of-two length >= 2
ValidField == \A d \in 0..3 : InitialLen(d) >= 2 /\ IsPow2(InitialLen(d))

Elements(s) == {s[i] : i \in 1..Len(s)}

\* s is t with some elements left out, the order kept
RECURSIVE IsSubseq(_, _)
IsSubseq(s, t) ==
    IF s = <<>> THEN TRUE
    ELSE IF t = <<>> THEN FALSE
    ELSE IF Head(s) = Head(t) THEN IsSubseq(Tail(s), Tail(t))
    ELSE IsSubseq(s, Tail(t))

\* the number of winners drawn so far that satisfy Test
CountDraws(Test(_)) == Cardinality({j \in 1..Len(draws) : Test(draws[j])})

\* main can take a step: a matchup is left to resolve in the round being
\* played (a matchup always ends, with a winner or an exception), or one of
\* main's other steps is enabled
CanStep ==
    \/ pc \in Playing /\ index < Len(arg)
    \/ ENABLED (ImportData \/ ForNext \/ StartRound \/ Return243
                \/ DivisionDone \/ FinalFour \/ Return255 \/ Championship
                \/ Return264)

\* both teams of the latest call have odds > 0
ValidPair ==
    /\ last.called
    /\ teams[last.team1].odds > 0
    /\ teams[last.team2].odds > 0

----------------------------------------------------------------------------
\* C1: for every two teams with odds > 0 the slips put in the hat,
\* round(p1 * 10) + round(p2 * 10), number exactly 1000, so that the
\* assertion on the hat never fails.
C1_HatHolds1000 ==
    ValidPair => last.n1 + last.n2 = HatSize /\ last.error # "AssertionError"

----------------------------------------------------------------------------
\* C2: while SingleRoundPlayBall builds its list, and when it returns it, the
\* element at position i is one of the two teams at positions 2i and 2i+1 of
\* the lineup it was given, and a lineup of even length N gives N/2 winners.
C2_WinnersInPairOrder ==
    pc \in Playing =>
        /\ 2 * Len(out) = index
        /\ \A i \in 1..Len(out) : out[i] \in {arg[2 * i - 1], arg[2 * i]}
        /\ (index >= Len(arg) /\ Len(arg) % 2 = 0 => 2 * Len(out) = Len(arg))

\* a round of four teams is complete and about to be returned
C2_Witness ==
    /\ pc = "play243"
    /\ Len(arg) = 4
    /\ index >= Len(arg)
    /\ Len(out) = 2

----------------------------------------------------------------------------
\* C3: after WeightedCoinFlip returns, for any two teams with odds > 0 (two
\* teams of one name included), the winner's upset flag is true exactly when the winner
\* had the strictly lower probability, and the loser's flag is false.
C3_UpsetIffUnderdogWon ==
    ValidPair /\ last.error = "none" =>
        LET loser == IF last.winner = last.team1 THEN last.team2 ELSE last.team1
            pw == IF last.winner = last.team1 THEN last.p1 ELSE last.p2
            pl == IF last.winner = last.team1 THEN last.p2 ELSE last.p1
        IN  /\ teams[last.winner].previous_upset <=> pw < pl
            /\ ~teams[loser].previous_upset

----------------------------------------------------------------------------
\* C4 as stated: on a malformed input (a lineup whose length is not a power
\* of two >= 2, or a division missing) the run fails before any matchup of
\* any division is resolved.
C4_FailsBeforeAnyMatchup ==
    (\E d \in 0..3 : InitialLen(d) < 2 \/ ~IsPow2(InitialLen(d))) =>
        draws = <<>> /\ pc # "done"

\* the divisions the program cannot play: missing, or of a length that is
\* no power of two (a length of 1 is played: it needs no matchup)
Unplayable == {d \in 0..3 : InitialLen(d) = 0 \/ ~IsPow2(InitialLen(d))}

FirstUnplayable == CHOOSE d \in Unplayable : \A e \in Unplayable : d <= e

\* C4 as amended: a file with a missing division or a lineup whose length is
\* no power of two never yields a Champion and the run goes on until it
\* fails; but the KeyError or IndexError is raised only when the first such
\* division is reached (the round of odd length is about to be printed),
\* with every earlier division resolved to its champion and every earlier
\* round of the division played.  A lineup of one team is not an error: the
\* team is the division's champion without a matchup.
C4_FailsWhenReached ==
    /\ Unplayable # {} =>
          /\ pc # "done"
          /\ champion = <<>>
          /\ pc = "aborted" \/ CanStep
    /\ pc = "aborted" /\ error \in {"KeyError", "IndexError"} =>
          /\ Unplayable # {}
          /\ tournament_index = FirstUnplayable
          /\ Len(semi_final_lineup) = tournament_index
          /\ \A d \in 0..(tournament_index - 1) :
                CountDraws(LAMBDA e : e.stage = d) = InitialLen(d) - 1
          /\ error = "KeyError" <=> InitialLen(tournament_index) = 0
          /\ error = "IndexError" =>
                /\ Len(lineup) % 2 = 1
                /\ Len(lineup) >= 3
                /\ CountDraws(LAMBDA e : e.stage = tournament_index)
                      = InitialLen(tournament_index) - Len(lineup)
    /\ \A d \in 0..3 :
          InitialLen(d) = 1 /\ Len(semi_final_lineup) > d =>
              /\ semi_final_lineup[d + 1] = InitialLineup(d)[1]
              /\ CountDraws(LAMBDA e : e.stage = d) = 0

\* a lineup of six was played down to three, and the run failed there
C4_Witness ==
    /\ pc = "aborted"
    /\ error = "IndexError"
    /\ InitialLen(tournament_index) = 6
    /\ Len(lineup) = 3
    /\ draws # <<>>

----------------------------------------------------------------------------
\* C5 as stated: a Team with odds <= 0 is never made (the construction
\* fails), so every team has a probability 1/odds > 0.
C5_NonPositiveOddsRejected ==
    pc # "import" =>
        /\ (\E i \in 1..Len(csv) : csv[i].odds <= 0) =>
              pc = "aborted" /\ teams = <<>>
        /\ \A i \in 1..Len(teams) : teams[i].probability.num > 0

\* C5 as amended: a Team with odds = 0 is never made (1 / odds raises
\* ZeroDivisionError); a negative odds makes a team, with the negative
\* probability 1/odds.  Every team has probability 1/odds, of the sign of
\* its odds and never zero.
C5_OnlyZeroOddsRejected ==
    pc # "import" =>
        /\ (\E i \in 1..Len(csv) : csv[i].odds = 0) =>
              pc = "aborted" /\ error = "ZeroDivisionError" /\ teams = <<>>
        /\ (\A i \in 1..Len(csv) : csv[i].odds # 0) =>
              /\ Len(teams) = Len(csv)
              /\ \A i \in 1..Len(teams) :
                    /\ teams[i].odds = csv[i].odds
                    /\ teams[i].probability.den > 0
                    /\ teams[i].probability.num * teams[i].odds
                          = teams[i].probability.den
                    /\ teams[i].probability.num # 0
                    /\ teams[i].probability.num < 0 <=> teams[i].odds < 0

\* a team of negative odds exists, its probability negative
C5_Witness ==
    /\ pc # "import"
    /\ \E i \in 1..Len(teams) :
          teams[i].odds < 0 /\ teams[i].probability.num < 0

----------------------------------------------------------------------------
\* C6: with four lineups of power-of-two lengths the run never aborts: each
\* division halves round by round down to its champion, the Final Four
\* lineup holds the four champions in the order Midwest, West, South, East,
\* two finalists follow and then one Champion.
C6_AlwaysReachesChampion ==
    ValidField =>
        /\ pc # "aborted"
        /\ pc = "while" =>
              Len(lineup) * (2 ^ round_index) = InitialLen(tournament_index)
        /\ Len(semi_final_lineup) <= 4
        /\ \A d \in 1..Len(semi_final_lineup) :
              semi_final_lineup[d] \in Elements(InitialLineup(d - 1))
        /\ pc \in {"play255", "championship", "play264", "done"} =>
              Len(semi_final_lineup) = 4
        /\ pc \in {"championship", "play264", "done"} => Len(final_lineup) = 2
        /\ pc = "done" => Len(champion) = 1
        /\ pc \in {"done", "aborted"} \/ CanStep

----------------------------------------------------------------------------
\* C7 as stated: for two teams with odds > 0 both percentages lie strictly
\* between 0 and 100.
C7_StrictlyBetween0And100 ==
    ValidPair =>
        /\ 0 < last.p1 /\ last.p1 < Percent * Milli
        /\ 0 < last.p2 /\ last.p2 < Percent * Milli

\* C7 as amended: for two teams with odds > 0 both percentages lie in the
\* closed range from 0 to 100; they lie strictly inside it whenever neither
\* team's odds are more than 1998 times the other's; odds of 3000 or more
\* times the other's give 0 and 100.
C7_Between0And100Inclusive ==
    ValidPair =>
        LET o1 == teams[last.team1].odds
            o2 == teams[last.team2].odds
        IN  /\ 0 <= last.p1 /\ last.p1 <= Percent * Milli
            /\ 0 <= last.p2 /\ last.p2 <= Percent * Milli
            /\ o1 <= 1998 * o2 /\ o2 <= 1998 * o1 =>
                  /\ 0 < last.p1 /\ last.p1 < Percent * Milli
                  /\ 0 < last.p2 /\ last.p2 < Percent * Milli
            /\ o2 >= 3000 * o1 => last.p2 = 0 /\ last.p1 = Percent * Milli
            /\ o1 >= 3000 * o2 => last.p1 = 0 /\ last.p2 = Percent * Milli

\* a long shot: 0% against 100%
C7_Witness ==
    /\ ValidPair
    /\ last.p2 = 0
    /\ last.p1 = Percent * Milli

----------------------------------------------------------------------------
\* the hat of the matchup SingleRoundPlayBall is about to resolve does not
\* hold 1000 slips
HatCheckWillFail ==
    /\ pc \in Playing
    /\ index + 1 < Len(arg)
    /\ LET p == CalculateWinProbabilities(teams[arg[index + 1]],
                                          teams[arg[index + 2]])
       IN  /\ p.error = "none"
           /\ RangeLen(Slips(p.p1)) + RangeLen(Slips(p.p2)) # 1000

\* C8: when the check of the hat fails in a matchup the run ends there with
\* the AssertionError: no winner is drawn for the matchup, nothing more
\* happens after it, and no Champion is produced.
C8_AbortsAtFailedCheck ==
    [][/\ HatCheckWillFail =>
             /\ pc' = "aborted"
             /\ error' = "AssertionError"
             /\ UNCHANGED <<out, index, draws, lineup, semi_final_lineup,
                            final_lineup, champion>>
       /\ pc = "aborted" => UNCHANGED vars
       /\ pc = "aborted" => champion = <<>>]_vars

\* the check failed in a matchup that was not the first of the run
C8_Witness ==
    /\ pc = "aborted"
    /\ error = "AssertionError"
    /\ Len(draws) >= 3

----------------------------------------------------------------------------
\* the place of a draw in the stated order: the division (4 for the Final
\* Four, 5 for the Championship), then the round, then the pair
DivisionRank(e) ==
    IF e.site = "play255" THEN 4
    ELSE IF e.site = "play264" THEN 5
    ELSE CHOOSE d \in 0..3 : StatedOrder[d + 1] = e.division

DrawBefore(e, f) ==
    \/ DivisionRank(e) < DivisionRank(f)
    \/ DivisionRank(e) = DivisionRank(f) /\ e.round < f.round
    \/ DivisionRank(e) = DivisionRank(f) /\ e.round = f.round /\ e.pair < f.pair

\* the draws before the j-th that satisfy Test
CountBefore(j, Test(_)) == Cardinality({i \in 1..(j - 1) : Test(draws[i])})

\* C9: winners are drawn in division order (Midwest, West, South, East, then
\* the Final Four, then the Championship), within a division round after
\* round and within a round pair after pair from the left; a draw is made
\* only when every matchup of the earlier divisions and of the earlier
\* rounds of its division has been resolved.  (The counts are stated of the
\* latest draw: every draw is the latest one in the state it is made in.)
C9_DrawsInOrder ==
    /\ \A j \in 2..Len(draws) : DrawBefore(draws[j - 1], draws[j])
    /\ draws # <<>> =>
          LET j == Len(draws)
              e == draws[j]
              r == DivisionRank(e)
          IN  /\ e.pair = CountBefore(j, LAMBDA f :
                              DivisionRank(f) = r /\ f.round = e.round)
              /\ ValidField =>
                    /\ \A d \in 0..3 : d < r =>
                          CountBefore(j, LAMBDA f : DivisionRank(f) = d)
                              = InitialLen(d) - 1
                    /\ r < 4 /\ e.round > 0 =>
                          CountBefore(j, LAMBDA f :
                              DivisionRank(f) = r /\ f.round = e.round - 1)
                              = InitialLen(r) \div (2 ^ e.round)
                    /\ r = 5 =>
                          CountBefore(j, LAMBDA f : DivisionRank(f) = 4) = 2

\* a whole tournament of four divisions of four teams has been played
C9_Witness ==
    /\ pc = "done"
    /\ Len(draws) = 15

----------------------------------------------------------------------------
\* C10: at every round boundary the division's lineup is its initial lineup
\* with some teams left out, the order kept; each entry of the Final Four
\* lineup comes from its own division's initial lineup; the finalists are
\* Final Four teams and the Champion is a finalist, a team of the file.
C10_Lineage ==
    /\ pc = "while" => IsSubseq(lineup, InitialLineup(tournament_index))
    /\ Len(semi_final_lineup) <= 4
    /\ \A d \in 1..Len(semi_final_lineup) :
          semi_final_lineup[d] \in Elements(InitialLineup(d - 1))
    /\ IsSubseq(final_lineup, semi_final_lineup)
    /\ champion # <<>> =>
          /\ champion[1] \in Elements(final_lineup)
          /\ champion[1] \in 1..Len(csv)

\* the Champion of a field of four divisions of four teams is the last team
\* of the East
C10_Witness ==
    /\ pc = "done"
    /\ \A d \in 0..3 : InitialLen(d) = 4
    /\ champion = <<InitialLineup(3)[4]>>

====
